---- MODULE Spec2Model ----
(***************************************************************************)
(* Model of the two avatar generation scripts of youth-wisdom-avatars:     *)
(*   generate-batch.js        (batch mode over authors.json)               *)
(*   regenerate-specific.js   (targeted regeneration of named authors)     *)
(* The state is the file system the scripts share (the avatars directory,  *)
(* manifest.json, authors.json), the command line, and the position and    *)
(* locals of the one running process.  A process is started, runs to its   *)
(* exit, and may then be invoked again with the same command line.         *)
(***************************************************************************)
EXTENDS Integers, Sequences, FiniteSets, TLC

\* ------------------------------------------------------------------ bounds
\* longest catalog (authors.json) and longest list of names on a command line
MaxLen == 2
\* number of successive invocations of the script
MaxRuns == 2

\* ------------------------------------------------------------- characters
Range(s) == {s[k] : k \in 1..Len(s)}

\* A string is a sequence of one-character strings, so that normalizeFilename
\* and String.prototype.replace can be computed on it.
Upper ==
  <<"A", "B", "C", "D", "E", "F", "G", "H", "I", "J", "K", "L", "M", "N", "O", "P",
  "Q", "R", "S", "T", "U", "V", "W", "X", "Y", "Z">>
Lower ==
  <<"a", "b", "c", "d", "e", "f", "g", "h", "i", "j", "k", "l", "m", "n", "o", "p",
  "q", "r", "s", "t", "u", "v", "w", "x", "y", "z">>
Digits == {"0", "1", "2", "3", "4", "5", "6", "7", "8", "9"}

Plato == <<"P", "l", "a", "t", "o">>
Kant == <<"K", "a", "n", "t">>
\* two names that differ as strings and normalize to the same filename
LaoTzu == <<"L", "a", "o", " ", "T", "z", "u">>
LAO_TZU == <<"L", "A", "O", "-", "T", "Z", "U">>
\* the names a catalog is made of, and those given to regenerate-specific.js
Names == {Plato, Kant, LaoTzu, LAO_TZU}
RegenNames == {Kant, LaoTzu, LAO_TZU}

PNG == <<".", "p", "n", "g">>
BACKUP_PNG == <<".", "b", "a", "c", "k", "u", "p", ".", "p", "n", "g">>
AVATARS_DIR == <<"a", "v", "a", "t", "a", "r", "s">>

\* the characters of the model's strings
Chars == Range(Upper) \cup Range(Lower) \cup Digits \cup {" ", "-", ".", "/"}

\* String.prototype.toLowerCase on one character
toLowerCase(c) ==
  IF \E k \in 1..Len(Upper) : Upper[k] = c
  THEN Lower[CHOOSE k \in 1..Len(Upper) : Upper[k] = c]
  ELSE c

\* the character class [a-z0-9] of the regular expression
IsAlnum(c) == c \in Range(Lower) \/ c \in Digits

\* what toLowerCase().replace(/[^a-z0-9]/g, '-') makes of each character
NormalizedChar ==
  [c \in Chars |-> IF IsAlnum(toLowerCase(c)) THEN toLowerCase(c) ELSE "-"]

\* authorName.toLowerCase().replace(/[^a-z0-9]/g, '-') + '.png'
normalizeFilename(authorName) ==
  [k \in 1..Len(authorName) |-> NormalizedChar[authorName[k]]] \o PNG

\* path.join(AVATARS_DIR, filename)
PathJoin(dir, filename) == dir \o <<"/">> \o filename

\* index of the first occurrence of pat in s, 0 when there is none
IndexOf(s, pat) ==
  LET hits == {k \in 1..(Len(s) - Len(pat) + 1) : SubSeq(s, k, k + Len(pat) - 1) = pat}
  IN IF hits = {} THEN 0 ELSE CHOOSE k \in hits : \A m \in hits : k <= m

\* String.prototype.replace(pattern, replacement) with a string pattern:
\* only the first occurrence is replaced
ReplaceFirst(s, pat, rep) ==
  LET k == IndexOf(s, pat)
  IN IF k = 0 THEN s
     ELSE SubSeq(s, 1, k - 1) \o rep \o SubSeq(s, k + Len(pat), Len(s))

\* filepath.replace('.png', '.backup.png')
BackupPath(filepath) == ReplaceFirst(filepath, PNG, BACKUP_PNG)

\* ---------------------------------------------------------- command line
\* One flag of generate-batch.js: absent, given as --flag=N, or given as two
\* words, --flag N (the form of the usage comment).
NoArg == [form |-> "none", n |-> 0]
Eq(n) == [form |-> "eq", n |-> n]
Sp(n) == [form |-> "sp", n |-> n]

\* parseInt(args.find(arg => arg.startsWith('--flag'))?.split('=')[1] || dflt)
ParseFlag(arg, dflt) == IF arg.form = "eq" THEN arg.n ELSE dflt

DEFAULT_DELAY == 1000
REGEN_DELAY == 1000

Min(a, b) == IF a < b THEN a ELSE b
Max(a, b) == IF a > b THEN a ELSE b

\* Array.prototype.slice(start, end)
Slice(arr, start, end) ==
  LET len == Len(arr)
      from == IF start < 0 THEN Max(len + start, 0) ELSE Min(start, len)
      to == IF end < 0 THEN Max(len + end, 0) ELSE Min(end, len)
  IN SubSeq(arr, from + 1, to)

\* sequences over S of length at most n
SeqsUpTo(S, n) == UNION {[1..k -> S] : k \in 0..n}
\* those without a repeated element
Distinct(s) == \A a, b \in 1..Len(s) : a # b => s[a] # s[b]



\* ------------------------------------------------------------------ state
VARIABLES
  script,               \* which script the command line runs: "batch" or "regen"
  authorsFile,          \* authors.json: authorsData.authors
  flags,                \* generate-batch.js: the --start, --limit and --delay arguments
  authorsToRegenerate,  \* regenerate-specific.js: process.argv.slice(2)
  hasKey,               \* whether GEMINI_API_KEY is set
  fs,                   \* the files under the avatars directory: path -> image held
  manifestFile,         \* manifest.json: [exists, data]
  now,                  \* the clock read by new Date()
  images,               \* number of images the API has returned so far
  run,                  \* number of the current invocation
  pc,                   \* position of the process
  exitCode,             \* exit code of the process (-1 while it runs)
  manifest,             \* main: const manifest
  authorsToProcess,     \* main of generate-batch.js: const authorsToProcess
  i,                    \* main: the loop index
  successCount, skipCount, errorCount,
  errors,               \* main: const errors (the author of each entry)
  base64Data,           \* main: const base64Data (the image returned)
  trace,                \* history: what the current invocation has done, in order
  startFs,              \* history: fs when the current invocation started
  versions,             \* history: every image each path has held, oldest first
  prevErrorCount        \* history: errorCount of the previous invocation (-1: none)

env == <<script, authorsFile, flags, authorsToRegenerate, hasKey>>
counters == <<successCount, skipCount, errorCount, errors>>
vars == <<script, authorsFile, flags, authorsToRegenerate, hasKey, fs, manifestFile,
          now, images, run, pc, exitCode, manifest, authorsToProcess, i,
          successCount, skipCount, errorCount, errors, base64Data, trace, startFs,
          versions, prevErrorCount>>

\* const startIndex / limit / delay of generate-batch.js
startIndex == ParseFlag(flags.start, 0)
limit == ParseFlag(flags.limit, 0)
delay == ParseFlag(flags.delay, DEFAULT_DELAY)

\* ------------------------------------------------------------- manifest
\* the default structure of loadManifest; updated_at is absent from it (-1)
DefaultManifest(t) ==
  [generated_at |-> t, updated_at |-> -1, total_avatars |-> 0, avatars |-> <<>>]

NoFile == [exists |-> FALSE, data |-> DefaultManifest(0)]

\* loadManifest of both scripts: the parsed file when it exists, else the default
loadManifest(file, t) == IF file.exists THEN file.data ELSE DefaultManifest(t)

\* manifest.avatars[author] = { filename, generated_at } (generate-batch.js)
SetRecord(m, author, filename, t) ==
  [m EXCEPT !.avatars =
     (author :> [filename |-> filename, generated_at |-> t, regenerated |-> FALSE]) @@ @]

\* manifest.avatars[author] = { filename, generated_at, regenerated: true }
SetRecord_R(m, author, filename, t) ==
  [m EXCEPT !.avatars =
     (author :> [filename |-> filename, generated_at |-> t, regenerated |-> TRUE]) @@ @]

\* a saveManifest that stamps the time but keeps the total it loaded
saveManifest_keepsTotal(m, t) == [m EXCEPT !.updated_at = t]

\* saveManifest: the two assignments to the manifest object
saveManifest(m, t) ==
  [m EXCEPT !.updated_at = t, !.total_avatars = Cardinality(DOMAIN m.avatars)]

\* a saveManifest that never reaches the disk
WriteManifest_lost(file, m) == file

\* saveManifest: fs.writeFileSync(MANIFEST_FILE, JSON.stringify(manifest, null, 2))
WriteManifest(file, m) == [exists |-> TRUE, data |-> m]

\* ------------------------------------------------------------ persister
\* fs.writeFileSync(path, image)
WriteFile(files, path, image) == (path :> image) @@ files

\* an existence check that never finds the file
existsSync_never(files, path) == FALSE

\* fs.existsSync(path)
existsSync(files, path) == path \in DOMAIN files

\* saveAvatar of generate-batch.js: writes the file unconditionally
saveAvatar(files, authorName, image) ==
  WriteFile(files, PathJoin(AVATARS_DIR, normalizeFilename(authorName)), image)

\* a saveAvatar that overwrites without the backup copy
saveAvatar_R_nobackup(files, authorName, image) ==
  WriteFile(files, PathJoin(AVATARS_DIR, normalizeFilename(authorName)), image)

\* saveAvatar of regenerate-specific.js: copies an existing file to its backup
\* path, then writes
saveAvatar_R(files, authorName, image) ==
  LET filepath == PathJoin(AVATARS_DIR, normalizeFilename(authorName))
      backed == IF existsSync(files, filepath)
                THEN WriteFile(files, BackupPath(filepath), files[filepath])
                ELSE files
  IN WriteFile(backed, filepath, image)

\* history of the images each path has held, after files became files2
Record(vs, files, files2) ==
  [p \in DOMAIN files2 |->
     IF p \notin DOMAIN files THEN <<files2[p]>>
     ELSE IF files2[p] = files[p] THEN vs[p]
     ELSE Append(vs[p], files2[p])]

Event(ev, item, arg) == [ev |-> ev, item |-> item, arg |-> arg]

\* ------------------------------------------------------------------ Init
ContentPaths == {PathJoin(AVATARS_DIR, normalizeFilename(n)) : n \in Names}

\* a manifest.json left by earlier runs and hand edits: its total is stale
StaleManifest ==
  [exists |-> TRUE,
   data |-> [generated_at |-> 0, updated_at |-> 0, total_avatars |-> 5,
             avatars |-> (Kant :> [filename |-> normalizeFilename(Kant),
                                   generated_at |-> 0, regenerated |-> FALSE])]]

\* command lines of generate-batch.js: every flag absent or given as --flag=N,
\* and two command lines written as in the usage comment, --flag N
StartArgs == {NoArg} \cup {Eq(n) : n \in 1..MaxLen}
LimitArgs == {NoArg} \cup {Eq(n) : n \in 0..MaxLen}
DelayArgs == {NoArg, Eq(0)}
CommandLines ==
  [start : StartArgs, limit : LimitArgs, delay : DelayArgs]
  \cup {[start |-> NoArg, limit |-> Sp(1), delay |-> NoArg],
        [start |-> Sp(1), limit |-> Sp(1), delay |-> Sp(0)]}

\* the avatars directory and manifest.json before the first invocation: a fresh
\* checkout, or some avatars and the manifest of earlier work
Disks ==
  {[files |-> <<>>, manifest |-> NoFile]}
  \cup {[files |-> [p \in S |-> 0], manifest |-> StaleManifest] : S \in SUBSET ContentPaths}

Init ==
  /\ script \in {"batch", "regen"}
  /\ \/ /\ script = "batch"
        /\ authorsFile \in {s \in SeqsUpTo(Names, MaxLen) : Distinct(s)}
        /\ flags \in CommandLines
        /\ authorsToRegenerate = <<>>
     \/ /\ script = "regen"
        /\ authorsFile = <<>>
        /\ flags = [start |-> NoArg, limit |-> NoArg, delay |-> NoArg]
        /\ authorsToRegenerate \in SeqsUpTo(RegenNames, MaxLen)
  /\ hasKey \in BOOLEAN
  /\ \E d \in Disks : fs = d.files /\ manifestFile = d.manifest
  /\ now = 1
  /\ images = 0
  /\ run = 1
  /\ pc = "start"
  /\ exitCode = -1
  /\ manifest = DefaultManifest(0)
  /\ authorsToProcess = <<>>
  /\ i = 0
  /\ successCount = 0 /\ skipCount = 0 /\ errorCount = 0
  /\ errors = <<>>
  /\ base64Data = 0
  /\ trace = <<>>
  /\ startFs = fs
  /\ versions = [p \in DOMAIN fs |-> <<fs[p]>>]
  /\ prevErrorCount = -1


\* ------------------------------------------------- generate-batch.js: main
\* const endIndex
endIndex ==
  IF limit > 0 THEN Min(startIndex + limit, Len(authorsFile)) ELSE Len(authorsFile)

\* the catch block's errorCount++ left out
CaughtErrors_uncounted(n) == n

\* the catch block: errorCount++
CaughtErrors(n) == n + 1

\* a pause after every item, the final one included
MoreItems_always(index, len) == TRUE

\* the guard of the rate-limiting pause: i < authorsToProcess.length - 1
MoreItems(index, len) == index < len - 1

author == authorsToProcess[i + 1]

\* an existence check on the name as written, not on the normalized filename
filepath_raw == PathJoin(AVATARS_DIR, author \o PNG)

\* const filepath = path.join(AVATARS_DIR, normalizeFilename(author))
filepath == PathJoin(AVATARS_DIR, normalizeFilename(author))

\* the missing-key check, loadManifest and the range selection, up to the loop
BatchStart ==
  /\ pc = "start" /\ script = "batch"
  /\ IF ~hasKey
     THEN /\ pc' = "exited"
          /\ exitCode' = 1
          /\ UNCHANGED <<manifest, authorsToProcess>>
     ELSE /\ pc' = "loop"
          /\ manifest' = loadManifest(manifestFile, now)
          /\ authorsToProcess' = Slice(authorsFile, startIndex, endIndex)
          /\ UNCHANGED exitCode
  /\ UNCHANGED <<env, fs, manifestFile, now, images, run, i, counters, base64Data,
                 trace, startFs, versions, prevErrorCount>>

\* the loop reaches an item whose file exists: skipCount++; continue
BatchSkip ==
  /\ pc = "loop" /\ script = "batch"
  /\ i < Len(authorsToProcess)
  /\ existsSync(fs, filepath)
  /\ skipCount' = skipCount + 1
  /\ i' = i + 1
  /\ trace' = Append(trace, Event("skip", i + 1, 0))
  /\ UNCHANGED <<env, fs, manifestFile, now, images, run, pc, exitCode, manifest,
                 authorsToProcess, successCount, errorCount, errors, base64Data,
                 startFs, versions, prevErrorCount>>

\* the loop reaches an item whose file is missing: generateAvatar sends the request
BatchRequest ==
  /\ pc = "loop" /\ script = "batch"
  /\ i < Len(authorsToProcess)
  /\ ~existsSync(fs, filepath)
  /\ pc' = "generating"
  /\ trace' = Append(trace, Event("request", i + 1, 0))
  /\ UNCHANGED <<env, fs, manifestFile, now, images, run, exitCode, manifest,
                 authorsToProcess, i, counters, base64Data, startFs, versions,
                 prevErrorCount>>

\* generateAvatar returns the image data of the response, and
\* const savedFilename = saveAvatar(author, base64Data) writes it
BatchGenerated ==
  /\ pc = "generating" /\ script = "batch"
  /\ images' = images + 1
  /\ base64Data' = images + 1
  /\ now' = now + 1
  /\ fs' = saveAvatar(fs, author, base64Data')
  /\ versions' = Record(versions, fs, fs')
  /\ pc' = "record"
  /\ trace' = Append(trace, Event("write", i + 1, 0))
  /\ UNCHANGED <<env, manifestFile, run, exitCode, manifest, authorsToProcess, i,
                 counters, startFs, prevErrorCount>>

\* generateAvatar throws (API error, no parts, no image data); the catch block
\* counts the error and the loop goes on with the next item
BatchFailed ==
  /\ pc = "generating" /\ script = "batch"
  /\ now' = now + 1
  /\ errorCount' = CaughtErrors(errorCount)
  /\ errors' = Append(errors, author)
  /\ i' = i + 1
  /\ pc' = "loop"
  /\ trace' = Append(trace, Event("fail", i + 1, 0))
  /\ UNCHANGED <<env, fs, manifestFile, images, run, exitCode, manifest,
                 authorsToProcess, successCount, skipCount, base64Data, startFs,
                 versions, prevErrorCount>>

\* manifest.avatars[author] = {...}; saveManifest(manifest); successCount++,
\* then either the pause or the next item
BatchRecord ==
  /\ pc = "record" /\ script = "batch"
  /\ manifest' = saveManifest(SetRecord(manifest, author, normalizeFilename(author), now), now)
  /\ manifestFile' = WriteManifest(manifestFile, manifest')
  /\ successCount' = successCount + 1
  /\ trace' = trace \o <<Event("manifest", i + 1, 0), Event("success", i + 1, 0)>>
  /\ IF MoreItems(i, Len(authorsToProcess))
     THEN pc' = "sleep" /\ i' = i
     ELSE pc' = "loop" /\ i' = i + 1
  /\ UNCHANGED <<env, fs, now, images, run, exitCode, authorsToProcess, skipCount,
                 errorCount, errors, base64Data, startFs, versions, prevErrorCount>>

\* await sleep(delay)
BatchSleep ==
  /\ pc = "sleep" /\ script = "batch"
  /\ now' = now + delay
  /\ trace' = Append(trace, Event("sleep", i + 1, delay))
  /\ i' = i + 1
  /\ pc' = "loop"
  /\ UNCHANGED <<env, fs, manifestFile, images, run, exitCode, manifest,
                 authorsToProcess, counters, base64Data, startFs, versions,
                 prevErrorCount>>

\* the loop ends; the summary is logged and main returns
BatchFinish ==
  /\ pc = "loop" /\ script = "batch"
  /\ i >= Len(authorsToProcess)
  /\ pc' = "exited"
  /\ exitCode' = 0
  /\ UNCHANGED <<env, fs, manifestFile, now, images, run, manifest, authorsToProcess,
                 i, counters, base64Data, trace, startFs, versions, prevErrorCount>>

\* --------------------------------------------- regenerate-specific.js: main
\* a script that starts its loop without any name
NoAuthors_unchecked(names) == FALSE

\* authorsToRegenerate.length === 0
NoAuthors(names) == Len(names) = 0

author_R == authorsToRegenerate[i + 1]

\* the module-level check of the names, the missing-key check and loadManifest
RegenStart ==
  /\ pc = "start" /\ script = "regen"
  /\ IF NoAuthors(authorsToRegenerate) \/ ~hasKey
     THEN /\ pc' = "exited"
          /\ exitCode' = 1
          /\ UNCHANGED manifest
     ELSE /\ pc' = "loop"
          /\ manifest' = loadManifest(manifestFile, now)
          /\ UNCHANGED exitCode
  /\ UNCHANGED <<env, fs, manifestFile, now, images, run, authorsToProcess, i,
                 counters, base64Data, trace, startFs, versions, prevErrorCount>>

\* the loop reaches an item: generateAvatar sends the request
RegenRequest ==
  /\ pc = "loop" /\ script = "regen"
  /\ i < Len(authorsToRegenerate)
  /\ pc' = "generating"
  /\ trace' = Append(trace, Event("request", i + 1, 0))
  /\ UNCHANGED <<env, fs, manifestFile, now, images, run, exitCode, manifest,
                 authorsToProcess, i, counters, base64Data, startFs, versions,
                 prevErrorCount>>

\* generateAvatar returns the image data of the response, and
\* const savedFilename = saveAvatar(author, base64Data) backs up and writes
RegenGenerated ==
  /\ pc = "generating" /\ script = "regen"
  /\ images' = images + 1
  /\ base64Data' = images + 1
  /\ now' = now + 1
  /\ fs' = saveAvatar_R(fs, author_R, base64Data')
  /\ versions' = Record(versions, fs, fs')
  /\ pc' = "record"
  /\ trace' = Append(trace, Event("write", i + 1, 0))
  /\ UNCHANGED <<env, manifestFile, run, exitCode, manifest, authorsToProcess, i,
                 counters, startFs, prevErrorCount>>

\* generateAvatar throws; the catch block counts the error
RegenFailed ==
  /\ pc = "generating" /\ script = "regen"
  /\ now' = now + 1
  /\ errorCount' = CaughtErrors(errorCount)
  /\ errors' = Append(errors, author_R)
  /\ i' = i + 1
  /\ pc' = "loop"
  /\ trace' = Append(trace, Event("fail", i + 1, 0))
  /\ UNCHANGED <<env, fs, manifestFile, images, run, exitCode, manifest,
                 authorsToProcess, successCount, skipCount, base64Data, startFs,
                 versions, prevErrorCount>>

\* manifest.avatars[author] = {..., regenerated: true}; saveManifest(manifest);
\* successCount++, then either the pause or the next item
RegenRecord ==
  /\ pc = "record" /\ script = "regen"
  /\ manifest' =
       saveManifest(SetRecord_R(manifest, author_R, normalizeFilename(author_R), now), now)
  /\ manifestFile' = WriteManifest(manifestFile, manifest')
  /\ successCount' = successCount + 1
  /\ trace' = trace \o <<Event("manifest", i + 1, 0), Event("success", i + 1, 0)>>
  /\ IF MoreItems(i, Len(authorsToRegenerate))
     THEN pc' = "sleep" /\ i' = i
     ELSE pc' = "loop" /\ i' = i + 1
  /\ UNCHANGED <<env, fs, now, images, run, exitCode, authorsToProcess, skipCount,
                 errorCount, errors, base64Data, startFs, versions, prevErrorCount>>

\* await sleep(1000)
RegenSleep ==
  /\ pc = "sleep" /\ script = "regen"
  /\ now' = now + REGEN_DELAY
  /\ trace' = Append(trace, Event("sleep", i + 1, REGEN_DELAY))
  /\ i' = i + 1
  /\ pc' = "loop"
  /\ UNCHANGED <<env, fs, manifestFile, images, run, exitCode, manifest,
                 authorsToProcess, counters, base64Data, startFs, versions,
                 prevErrorCount>>

\* the loop ends; the summary is logged and main returns
RegenFinish ==
  /\ pc = "loop" /\ script = "regen"
  /\ i >= Len(authorsToRegenerate)
  /\ pc' = "exited"
  /\ exitCode' = 0
  /\ UNCHANGED <<env, fs, manifestFile, now, images, run, manifest, authorsToProcess,
                 i, counters, base64Data, trace, startFs, versions, prevErrorCount>>

\* ------------------------------------------------------------- invocation
\* the operator runs the same command line again: a new process, new locals
Invoke ==
  /\ pc = "exited"
  /\ run < MaxRuns
  /\ run' = run + 1
  /\ pc' = "start"
  /\ exitCode' = -1
  /\ manifest' = DefaultManifest(0)
  /\ authorsToProcess' = <<>>
  /\ i' = 0
  /\ successCount' = 0 /\ skipCount' = 0 /\ errorCount' = 0
  /\ errors' = <<>>
  /\ base64Data' = 0
  /\ now' = now + 1
  /\ trace' = <<>>
  /\ startFs' = fs
  /\ prevErrorCount' = IF exitCode = 0 THEN errorCount ELSE -1
  /\ UNCHANGED <<env, fs, manifestFile, images, versions>>

Next ==
  \/ BatchStart \/ BatchSkip \/ BatchRequest \/ BatchGenerated \/ BatchFailed
  \/ BatchRecord \/ BatchSleep \/ BatchFinish
  \/ RegenStart \/ RegenRequest \/ RegenGenerated \/ RegenFailed
  \/ RegenRecord \/ RegenSleep \/ RegenFinish
  \/ Invoke

Spec == Init /\ [][Next]_vars


\* ------------------------------------------------------- reading the history
\* the work items of the current invocation
Items == IF script = "batch" THEN authorsToProcess ELSE authorsToRegenerate
PathOf(name) == PathJoin(AVATARS_DIR, normalizeFilename(name))
\* positions of the events of one kind, and the items they are about
At(ev) == {k \in 1..Len(trace) : trace[k].ev = ev}
ItemsOf(ev) == {trace[k].item : k \in At(ev)}
IsOutcome(e) == e.ev \in {"skip", "fail", "success"}
IsFail(e) == e.ev = "fail"
Outcomes == SelectSeq(trace, IsOutcome)
\* the loop has run to its end and main has returned
Completed == pc = "exited" /\ exitCode = 0
\* the request sent before the one at position r of the trace (0: none)
PrevRequest(r) ==
  LET before == {k \in At("request") : k < r}
  IN IF before = {} THEN 0 ELSE CHOOSE k \in before : \A m \in before : m <= k
\* the pauses between positions a and b of the trace
SleepsBetween(a, b) == {k \in At("sleep") : a < k /\ k < b}
\* the delay the command line configures
ConfiguredDelay ==
  IF script = "batch" /\ flags.delay.form = "eq" THEN flags.delay.n ELSE 1000

C2_FailureIsolation ==
  /\ (pc = "exited" /\ exitCode = 1) => trace = <<>>
  /\ Completed =>
       LET k == Len(Items)
           failed == SelectSeq(trace, IsFail)
       IN /\ Len(Outcomes) = k
          /\ \A j \in 1..k : Outcomes[j].item = j
          /\ errorCount = Len(failed)
          /\ errors = [j \in 1..Len(failed) |-> Items[failed[j].item]]
          /\ successCount = k - errorCount - skipCount
          /\ successCount = Cardinality(At("success"))
          /\ script = "regen" => skipCount = 0

C2_Witness ==
  /\ Completed /\ Len(Items) = 2
  /\ \E a, b \in 1..Len(trace) :
       a < b /\ trace[a] = Event("fail", 1, 0) /\ trace[b] = Event("success", 2, 0)

\* ------------------------------------------------------------------ C3
\* C3 as stated: when a targeted invocation ends, every named author whose
\* content file existed at its start has a new image in the content file and the
\* image it had at the start of the invocation in the backup file.
C3_Original ==
  (script = "regen" /\ Completed)
    => \A n \in Range(authorsToRegenerate) :
         PathOf(n) \in DOMAIN startFs
           => /\ fs[PathOf(n)] # startFs[PathOf(n)]
              /\ BackupPath(PathOf(n)) \in DOMAIN fs
              /\ fs[BackupPath(PathOf(n))] = startFs[PathOf(n)]

\* C3 amended: targeted mode sends a request for every item it reaches, whether
\* or not the content file exists; every request that succeeds on an existing
\* content file copies the image held just before it to the one backup path of
\* that file and overwrites the content file, so that after any number of
\* successful requests the content file holds the newest image, the backup the
\* image held immediately before the latest successful request, and neither
\* holds an older one; a failed request writes nothing.
C3_BackupIsPreviousVersion ==
  script = "regen" =>
    /\ skipCount = 0 /\ At("skip") = {}
    /\ Cardinality(At("request")) = i + (IF pc \in {"generating", "record", "sleep"} THEN 1 ELSE 0)
    /\ Cardinality(At("write")) = Cardinality(At("request")) - Cardinality(At("fail"))
                                    - (IF pc = "generating" THEN 1 ELSE 0)
    /\ \A q \in DOMAIN fs :
         \/ q \in ContentPaths
         \/ \E p \in ContentPaths \cap DOMAIN fs : q = BackupPath(p) /\ Len(versions[p]) >= 2
    /\ \A p \in ContentPaths \cap DOMAIN fs :
         LET v == versions[p]
             n == Len(v)
         IN /\ fs[p] = v[n]
            /\ n = 1 => BackupPath(p) \notin DOMAIN fs
            /\ n >= 2 =>
                 /\ BackupPath(p) \in DOMAIN fs
                 /\ fs[BackupPath(p)] = v[n - 1]
                 /\ \A m \in 1..(n - 2) : v[m] \notin {fs[p], fs[BackupPath(p)]}

C3_Witness ==
  /\ script = "regen" /\ run = 2 /\ Completed
  /\ Len(authorsToRegenerate) = 1
  /\ LET p == PathOf(authorsToRegenerate[1])
     IN /\ p \in DOMAIN versions
        /\ Len(versions[p]) = 3
        /\ fs[BackupPath(p)] = versions[p][2]

\* ------------------------------------------------------------------ C4
\* C4: when a targeted pass ends, every content file that existed at its start
\* and was overwritten during it has the image it held at the start of the pass
\* at its backup path.
C4_StartVersionKept ==
  (script = "regen" /\ Completed)
    => \A p \in ContentPaths \cap DOMAIN startFs :
         fs[p] # startFs[p]
           => /\ BackupPath(p) \in DOMAIN fs
              /\ fs[BackupPath(p)] = startFs[p]

\* ------------------------------------------------------------------ C5
\* no work item resolves: the range selects nothing, or no name was given
NoWork ==
  IF script = "batch"
  THEN Len(Slice(authorsFile, startIndex, endIndex)) = 0
  ELSE Len(authorsToRegenerate) = 0

\* C5 as stated: in both modes, when no work item resolves the process exits with
\* a non-zero code before any generation request.
C5_Original ==
  (pc = "exited" /\ NoWork) => (exitCode # 0 /\ At("request") = {})

\* C5 amended: when no work item resolves no generation request is sent and
\* nothing is written; targeted mode exits with code 1; batch mode runs its empty
\* loop and exits with code 0 (with code 1 only when the API key is missing).
C5_EmptyInput ==
  NoWork =>
    /\ trace = <<>> /\ images = 0 /\ fs = startFs
    /\ manifestFile \in {NoFile, StaleManifest}
    /\ pc \in {"start", "loop", "exited"}
    /\ pc = "exited" =>
         exitCode = (IF script = "regen" \/ ~hasKey THEN 1 ELSE 0)
    /\ script = "regen" => pc # "loop"

C5_Witness ==
  /\ script = "regen" /\ authorsToRegenerate = <<>> /\ hasKey
  /\ pc = "exited" /\ exitCode = 1 /\ run = 2

\* ------------------------------------------------------------------ C6
\* saveManifest was the last thing the process did
JustSaved == Len(trace) > 0 /\ trace[Len(trace)].ev = "success"

\* C6: in both modes, once an item of the run has succeeded the manifest on disk
\* has total_avatars equal to the number of keys of avatars, whatever total the
\* loaded manifest carried, and right after each saveManifest its updated_at is
\* the time of that save.
C6_ManifestIntegrity ==
  /\ At("success") # {} =>
       /\ manifestFile.exists
       /\ manifestFile.data.total_avatars = Cardinality(DOMAIN manifestFile.data.avatars)
  /\ JustSaved =>
       /\ manifestFile.data.updated_at = now
       /\ manifestFile.data = manifest

C6_Witness ==
  /\ JustSaved /\ run = 1
  /\ errorCount >= 1
  /\ Kant \in DOMAIN manifestFile.data.avatars
  /\ manifestFile.data.generated_at = 0
  /\ Cardinality(DOMAIN manifestFile.data.avatars) = 2

\* ------------------------------------------------------------------ C7
\* the items the loop has dealt with, in order
Processed == [j \in 1..Len(Outcomes) |-> authorsToProcess[Outcomes[j].item]]
\* the numbers the command line gives
GivenStart == IF flags.start.form = "none" THEN 0 ELSE flags.start.n
LimitGiven == flags.limit.form # "none"

\* C7: a completed batch run has processed exactly catalog[start .. endIndex-1]
\* in catalog order, endIndex = min(start + limit, total) when a limit is given
\* and total otherwise; with catalog [Plato, Kant], start 0, limit 1 and no
\* plato.png, a successful run sends one request, writes plato.png alone, adds
\* one manifest entry and counts success 1, skip 0, error 0.
C7_RangeSelection ==
  (script = "batch" /\ Completed) =>
    LET total == Len(authorsFile)
        claimedEnd == IF LimitGiven THEN Min(GivenStart + flags.limit.n, total) ELSE total
    IN /\ Processed = SubSeq(authorsFile, GivenStart + 1, claimedEnd)
       /\ (/\ authorsFile = <<Plato, Kant>> /\ GivenStart = 0
           /\ LimitGiven /\ flags.limit.n = 1
           /\ PathOf(Plato) \notin DOMAIN startFs
           /\ errorCount = 0)
            => /\ Cardinality(At("request")) = 1
               /\ DOMAIN fs = DOMAIN startFs \cup {PathOf(Plato)}
               /\ Plato \in DOMAIN manifestFile.data.avatars
               /\ successCount = 1 /\ skipCount = 0

C9_SkipIfExists ==
  script = "batch" =>
    /\ \A p \in DOMAIN versions : Len(versions[p]) = 1
    /\ \A p \in DOMAIN startFs : p \in DOMAIN fs /\ fs[p] = startFs[p]
    /\ \A k \in At("skip") :
         /\ PathOf(authorsToProcess[trace[k].item]) \in DOMAIN fs
         /\ \A m \in 1..Len(trace) : trace[m].item = trace[k].item => m = k
    /\ \A k \in At("request") :
         /\ PathOf(authorsToProcess[trace[k].item]) \notin DOMAIN startFs
         /\ \A m \in At("write") :
              m < k => PathOf(authorsToProcess[trace[m].item])
                         # PathOf(authorsToProcess[trace[k].item])
    /\ Cardinality(At("manifest")) = Cardinality(At("write")) - (IF pc = "record" THEN 1 ELSE 0)

C9_Witness ==
  /\ script = "batch" /\ Completed
  /\ authorsToProcess = <<LaoTzu, LAO_TZU>>
  /\ PathOf(LaoTzu) \notin DOMAIN startFs
  /\ successCount = 1 /\ skipCount = 1
  /\ \E a, b \in 1..Len(trace) :
       a < b /\ trace[a] = Event("write", 1, 0) /\ trace[b] = Event("skip", 2, 0)

====
